---- MODULE Spec2Model ----
(***************************************************************************)
(* A model of bppcomp.py: the directive expansion engine FileProcessor.    *)
(* Text is a sequence of one-character strings, so that the directive      *)
(* regular expression, the argument tokenizer and every splice are         *)
(* computed character by character as the Python code computes them.       *)
(* Positions start and end of a match are 0-based as in Python.            *)
(***************************************************************************)
EXTENDS Integers, Sequences, FiniteSets, TLC

VARIABLES
    files,              \* the sources on disk: a function from name to text
    input,              \* input_filename of the run
    initial_args,       \* initial_args of the run: None or a dictionary
    current_path,       \* FileProcessor.current_path
    frames,             \* the activations of process_file_recursive
    pc,                 \* where process_file is
    exc,                \* the exception process_file caught, if any
    processed_content,  \* what process_file_recursive returned to it
    output,             \* the output file
    reads,              \* the names read_file_content was called with
    log,                \* the diagnostics printed
    last,               \* the directive site substituted most recently
    tick,               \* parity of the number of substitutions made
    passes              \* the replacements spliced into the outermost buffer

vars == <<files, input, initial_args, current_path, frames, pc, exc,
          processed_content, output, reads, log, last, tick, passes>>

----------------------------------------------------------------------------
(* Characters *)

Space == {" ", "\n"}

Digits == {"0", "1", "2", "3", "4", "5", "6", "7", "8", "9"}

Lower == {"a", "b", "c", "d", "e", "f", "g", "h", "i", "j", "k", "l", "m",
          "n", "o", "p", "q", "r", "s", "t", "u", "v", "w", "x", "y", "z"}

Upper == {"A", "B", "C", "D", "E", "F", "G", "H", "I", "J", "K", "L", "M",
          "N", "O", "P", "Q", "R", "S", "T", "U", "V", "W", "X", "Y", "Z"}

\* the class [\w_] of the directive pattern
WordCh == Lower \cup Upper \cup Digits \cup {"_"}

----------------------------------------------------------------------------
(* Text helpers: Python's slicing, str.strip, str.join, str(int), `in` *)

\* Python evaluates an expression once, when it is assigned or passed:
\* F applied to the value of e
Eager(e, F(_)) == CHOOSE r \in {F(x) : x \in {e}} : TRUE

Slice(s, a, b) == SubSeq(s, a + 1, b)

Strip(s) ==
    LET kept == {i \in 1..Len(s) : s[i] \notin Space}
    IN IF kept = {} THEN <<>>
       ELSE SubSeq(s, CHOOSE a \in kept : \A b \in kept : a <= b,
                      CHOOSE a \in kept : \A b \in kept : a >= b)

RECURSIVE Join(_)
Join(args) ==
    IF args = <<>> THEN <<>>
    ELSE IF Len(args) = 1 THEN args[1]
    ELSE args[1] \o <<" ">> \o Join(Tail(args))

DigitChar(d) == <<"0", "1", "2", "3", "4", "5", "6", "7", "8", "9">>[d + 1]

DigitVal(c) == CHOOSE d \in 0..9 : DigitChar(d) = c

RECURSIVE StrNat(_)
StrNat(n) == IF n < 10 THEN <<DigitChar(n)>>
             ELSE StrNat(n \div 10) \o <<DigitChar(n % 10)>>

StrInt(n) == IF n < 0 THEN <<"-">> \o StrNat(0 - n) ELSE StrNat(n)

Contains(s, t) ==
    \E i \in 0..(Len(s) - Len(t)) : SubSeq(s, i + 1, i + Len(t)) = t

----------------------------------------------------------------------------
\* parse_directive: re.search of the directive pattern, which reads
\*   "[$", one or more word characters (the name), then any number of
\*   arguments, each being whitespace followed by either a lazy brace
\*   literal "{" ... "}" on one line or a run of characters that are neither
\*   whitespace nor "]", and finally "]";
\* followed by the brace-toggle tokenizer.

\* first position >= i (1-based) whose character is not in C
RunEnd(s, i, C) ==
    CHOOSE k \in i..(Len(s) + 1) :
        /\ \A j \in i..(k - 1) : s[j] \in C
        /\ (k = Len(s) + 1 \/ s[k] \notin C)

\* first position >= i (1-based) whose character ends a bare token
TokEnd(s, i) ==
    CHOOSE k \in i..(Len(s) + 1) :
        /\ \A j \in i..(k - 1) : s[j] \notin (Space \cup {"]"})
        /\ (k = Len(s) + 1 \/ s[k] \in (Space \cup {"]"}))

RECURSIVE MatchArgs(_, _), MatchBrace(_, _)

\* the rest of the pattern after the name, tried at 1-based position j in
\* the regex engine's backtracking order; the position after the closing
\* bracket, or 0 when nothing matches
MatchArgs(s, j) ==
    IF j > Len(s) THEN 0
    ELSE IF s[j] = "]" THEN j + 1
    ELSE IF s[j] \notin Space THEN 0
    ELSE Eager(RunEnd(s, j, Space), LAMBDA k :
           IF k > Len(s) THEN 0
           ELSE Eager(IF s[k] = "{" THEN MatchBrace(s, k + 1) ELSE 0,
                      LAMBDA braced :
                        IF braced # 0 THEN braced
                        ELSE IF s[k] = "]" THEN 0
                        ELSE Eager(TokEnd(s, k), LAMBDA t : MatchArgs(s, t))))

\* the lazy brace literal after its opening brace: the nearest closing brace
\* on the same line after which the rest of the pattern matches
MatchBrace(s, e) ==
    IF e > Len(s) THEN 0
    ELSE IF s[e] = "\n" THEN 0
    ELSE IF s[e] = "}"
         THEN Eager(MatchArgs(s, e + 1), LAMBDA r :
                IF r # 0 THEN r ELSE MatchBrace(s, e + 1))
    ELSE MatchBrace(s, e + 1)

\* where a match starting at 1-based position i ends (exclusive), or 0
MatchAt(s, i) ==
    IF i + 2 <= Len(s) /\ s[i] = "[" /\ s[i + 1] = "$" /\ s[i + 2] \in WordCh
    THEN Eager(RunEnd(s, i + 2, WordCh), LAMBDA n : MatchArgs(s, n))
    ELSE 0

\* TokStep splitting on whitespace without looking at in_braces
TokStep_SplitInBraces(st, char) ==
    IF char = "{"
    THEN [st EXCEPT !.current_arg = Append(@, char), !.in_braces = TRUE]
    ELSE IF char = "}"
    THEN [st EXCEPT !.current_arg = Append(@, char), !.in_braces = FALSE]
    ELSE IF char \in Space
    THEN IF st.current_arg # <<>>
         THEN [st EXCEPT !.args = Append(@, st.current_arg),
                         !.current_arg = <<>>]
         ELSE st
    ELSE [st EXCEPT !.current_arg = Append(@, char)]

\* lines 67-79: one character of the scan
TokStep(st, char) ==
    IF char = "{"
    THEN [st EXCEPT !.current_arg = Append(@, char), !.in_braces = TRUE]
    ELSE IF char = "}"
    THEN [st EXCEPT !.current_arg = Append(@, char), !.in_braces = FALSE]
    ELSE IF char \in Space /\ ~st.in_braces
    THEN IF st.current_arg # <<>>
         THEN [st EXCEPT !.args = Append(@, st.current_arg),
                         !.current_arg = <<>>]
         ELSE st
    ELSE [st EXCEPT !.current_arg = Append(@, char)]

RECURSIVE TokScan(_, _, _)
TokScan(s, i, st) ==
    IF i > Len(s)
    THEN IF st.current_arg # <<>> THEN Append(st.args, st.current_arg)
         ELSE st.args
    ELSE Eager(<<i + 1, TokStep(st, s[i])>>,
               LAMBDA nx : TokScan(s, nx[1], nx[2]))

\* lines 62-82
Tokenize(args_str) ==
    Eager(args_str, LAMBDA s :
        TokScan(s, 1, [args |-> <<>>, current_arg |-> <<>>,
                       in_braces |-> FALSE]))

NoMatch == [found |-> FALSE, full_match |-> <<>>, directive_name |-> <<>>,
            args |-> <<>>, start |-> 0, end |-> 0]

\* the leftmost 1-based position at which the pattern matches, 0 if none
RECURSIVE Search(_, _)
Search(s, i) ==
    IF i > Len(s) THEN 0
    ELSE IF MatchAt(s, i) # 0 THEN i
    ELSE Search(s, i + 1)

parse_directive(content) ==
    Eager(Search(content, 1), LAMBDA i :
        IF i = 0 THEN NoMatch
        ELSE Eager(<<MatchAt(content, i), RunEnd(content, i + 2, WordCh)>>,
                   LAMBDA en :
                     [found |-> TRUE,
                      full_match |-> SubSeq(content, i, en[1] - 1),
                      directive_name |-> SubSeq(content, i + 2, en[2] - 1),
                      args |-> Tokenize(Strip(SubSeq(content, en[2],
                                                     en[1] - 2))),
                      start |-> i - 1,
                      end |-> en[1] - 1]))

----------------------------------------------------------------------------
(* Python values that occur as dictionary values and handler results: a    *)
(* str or an int.  A dictionary is a function from key text to value.      *)

Str(s) == [t |-> "str", s |-> s, n |-> 0]

IntV(n) == [t |-> "int", s |-> <<>>, n |-> n]

EmptyDict == [k \in {} |-> Str(<<>>)]

\* Truthy testing only that the key is bound
Truthy_BoundOnly(d, k) == k \in DOMAIN d

\* dict.get(k, False) used as a condition
Truthy(d, k) ==
    /\ k \in DOMAIN d
    /\ IF d[k].t = "str" THEN d[k].s # <<>> ELSE d[k].n # 0

\* int(v) of a str or an int: the value, or ok = FALSE for ValueError
RECURSIVE NatOf(_)
NatOf(ds) == IF ds = <<>> THEN 0
             ELSE 10 * NatOf(SubSeq(ds, 1, Len(ds) - 1)) + DigitVal(ds[Len(ds)])

AllDigits(ds) == ds # <<>> /\ \A i \in 1..Len(ds) : ds[i] \in Digits

PyInt(v) ==
    IF v.t = "int" THEN [ok |-> TRUE, n |-> v.n]
    ELSE Eager(Strip(v.s), LAMBDA b :
           LET signed == b # <<>> /\ b[1] \in {"-", "+"}
               ds == IF signed THEN Tail(b) ELSE b
           IN IF AllDigits(ds)
              THEN [ok |-> TRUE,
                    n |-> IF signed /\ b[1] = "-" THEN 0 - NatOf(ds)
                          ELSE NatOf(ds)]
              ELSE [ok |-> FALSE, n |-> 0])

----------------------------------------------------------------------------
(* eval(...) of the optional dictionary argument of file and fileif.       *)
(* The literals read here are dictionary displays whose keys are quoted    *)
(* strings and whose values are quoted strings or decimal integers;        *)
(* anything else is an evaluation error or a value that is not a dict,     *)
(* and both leave file_args at None.                                       *)

Quotes == {"'", "\""}

SkipWs(s, i) == RunEnd(s, i, Space)

\* a quoted string starting at 1-based i: its text and the position after it
StrLit(s, i) ==
    IF i <= Len(s) /\ s[i] \in Quotes
       /\ \E e \in (i + 1)..Len(s) : s[e] = s[i]
    THEN LET e == CHOOSE a \in (i + 1)..Len(s) :
                      s[a] = s[i] /\ \A b \in (i + 1)..(a - 1) : s[b] # s[i]
         IN [ok |-> TRUE, v |-> Str(SubSeq(s, i + 1, e - 1)), next |-> e + 1]
    ELSE [ok |-> FALSE, v |-> Str(<<>>), next |-> i]

IntLit(s, i) ==
    LET e == RunEnd(s, i, Digits)
    IN IF e > i /\ (e = i + 1 \/ s[i] # "0")
       THEN [ok |-> TRUE, v |-> IntV(NatOf(SubSeq(s, i, e - 1))), next |-> e]
       ELSE [ok |-> FALSE, v |-> Str(<<>>), next |-> i]

NotDict == [isdict |-> FALSE, d |-> EmptyDict]

\* d[k] = v
Put(d, k, v) == [x \in DOMAIN d \cup {k} |-> IF x = k THEN v ELSE d[x]]

\* a value of a display at 1-based i
DictValue(s, i) ==
    Eager(StrLit(s, i), LAMBDA sv : IF sv.ok THEN sv ELSE IntLit(s, i))

RECURSIVE DictItems(_, _, _)
\* the items of a display from 1-based i on, added to d
DictItems(s, i, d) ==
    Eager(SkipWs(s, i), LAMBDA kpos :
    Eager(StrLit(s, kpos), LAMBDA k :
    Eager(SkipWs(s, k.next), LAMBDA c :
        IF ~k.ok \/ c > Len(s) \/ s[c] # ":" THEN NotDict
        ELSE
    Eager(SkipWs(s, c + 1), LAMBDA vpos :
    Eager(DictValue(s, vpos), LAMBDA v :
    Eager(SkipWs(s, v.next), LAMBDA after :
        IF ~v.ok \/ after > Len(s) THEN NotDict
        ELSE IF s[after] = "}"
             THEN IF after = Len(s)
                  THEN [isdict |-> TRUE, d |-> Put(d, k.v.s, v.v)]
                  ELSE NotDict
        ELSE IF s[after] = ","
             THEN Eager(Put(d, k.v.s, v.v),
                        LAMBDA d2 : DictItems(s, after + 1, d2))
        ELSE NotDict))))))

EvalDict(s) ==
    IF s = <<>> \/ s[1] # "{" THEN NotDict
    ELSE Eager(SkipWs(s, 2), LAMBDA i :
           IF i = Len(s) /\ s[i] = "}" THEN [isdict |-> TRUE, d |-> EmptyDict]
           ELSE DictItems(s, 2, EmptyDict))

----------------------------------------------------------------------------
(* The literal text of the directive names and of the placeholders that    *)
(* the handlers build with f-strings.                                      *)

N_file == <<"f", "i", "l", "e">>

N_fileif == <<"f", "i", "l", "e", "i", "f">>

N_arg == <<"a", "r", "g">>

N_python_eval == <<"p", "y", "t", "h", "o", "n", "_", "e", "v", "a", "l">>

N_generate_recursive ==
    <<"g", "e", "n", "e", "r", "a", "t", "e", "_", "r", "e", "c", "u", "r",
      "s", "i", "v", "e">>

N_math == <<"m", "a", "t", "h">>

GenMissing ==
    <<"[", "$", "g", "e", "n", "e", "r", "a", "t", "e", "_", "r", "e", "c",
      "u", "r", "s", "i", "v", "e", " ", "m", "i", "s", "s", "i", "n", "g",
      "_", "a", "r", "g", "u", "m", "e", "n", "t", "s", "]">>

GenUnknownPrefix ==
    <<"[", "$", "g", "e", "n", "e", "r", "a", "t", "e", "_", "r", "e", "c",
      "u", "r", "s", "i", "v", "e", " ", "u", "n", "k", "n", "o", "w", "n",
      "_", "p", "a", "t", "t", "e", "r", "n", "_", "t", "y", "p", "e", " ">>

GenEchoPrefix ==
    <<"[", "$", "g", "e", "n", "e", "r", "a", "t", "e", "_", "r", "e", "c",
      "u", "r", "s", "i", "v", "e", " ">>

VarPrefix == <<"[", "V", "A", "R", " ">>

MathPrefix == <<"[", "M", "A", "T", "H", " ", "[", "V", "A", "R", " ">>

FileMissing ==
    <<"[", "$", "f", "i", "l", "e", " ", "m", "i", "s", "s", "i", "n", "g",
      "_", "f", "i", "l", "e", "n", "a", "m", "e", "]">>

FilePrefix == <<"[", "$", "f", "i", "l", "e", " ">>

FileErrPrefix == <<"[", "#", " ", "$", "f", "i", "l", "e", " ">>

InfiniteLoopSuffix ==
    <<":", " ", "i", "n", "f", "i", "n", "i", "t", "e", " ", "l", "o", "o",
      "p", "]">>

FileifMissing ==
    <<"[", "#", " ", "$", "f", "i", "l", "e", " ", "m", "i", "s", "s", "i",
      "n", "g", "_", "f", "i", "l", "e", "n", "a", "m", "e", "]">>

ArgMissing ==
    <<"[", "#", " ", "$", "a", "r", "g", " ", "m", "i", "s", "s", "i", "n",
      "g", "_", "n", "a", "m", "e", "]">>

ArgErrPrefix == <<"[", "#", " ", "$", "a", "r", "g", " ">>

EvalMissing ==
    <<"[", "#", " ", "$", "p", "y", "t", "h", "o", "n", "_", "e", "v", "a",
      "l", " ", "m", "i", "s", "s", "i", "n", "g", "_", "e", "x", "p", "r",
      "e", "s", "s", "i", "o", "n", "]">>

EvalErrPrefix ==
    <<"[", "#", " ", "$", "p", "y", "t", "h", "o", "n", "_", "e", "v", "a",
      "l", " ">>

----------------------------------------------------------------------------
(* Handlers.  A handler yields one of: a returned value (r = "ret"), an    *)
(* exception that leaves the handler (r = "raise"), or the nested call     *)
(* process_file_recursive(filename, file_args, depth) whose result the     *)
(* handler returns, together with the text it returns instead when that    *)
(* call raises CircularReferenceError or RecursionError (r = "call").      *)
(* prints are the console diagnostics of the handler.                      *)

Diag(kind, who) == [k |-> kind, who |-> who]

Ret(v, prints) ==
    [r |-> "ret", val |-> v, exc |-> "", filename |-> <<>>,
     file_args |-> NotDict, onerr |-> <<>>, prints |-> prints]

Raises(e) ==
    [r |-> "raise", val |-> Str(<<>>), exc |-> e, filename |-> <<>>,
     file_args |-> NotDict, onerr |-> <<>>, prints |-> {}]

Call(filename, file_args, onerr, prints) ==
    [r |-> "call", val |-> Str(<<>>), exc |-> "", filename |-> filename,
     file_args |-> file_args, onerr |-> onerr, prints |-> prints]

\* build_pattern nesting on the left of the operator
RECURSIVE build_pattern_LeftNested(_, _, _)
build_pattern_LeftNested(n, var_name, operation) ==
    IF n = 0 THEN VarPrefix \o var_name \o <<"0", "]">>
    ELSE <<"[", "M", "A", "T", "H", " ">>
         \o build_pattern_LeftNested(n - 1, var_name, operation)
         \o <<" ">> \o operation \o <<" ">>
         \o VarPrefix \o var_name \o StrInt(n) \o <<"]", "]">>

RECURSIVE build_pattern(_, _, _)
build_pattern(n, var_name, operation) ==
    IF n = 0 THEN VarPrefix \o var_name \o <<"0", "]">>
    ELSE MathPrefix \o var_name \o StrInt(n) \o <<"]", " ">> \o operation
         \o <<" ">> \o build_pattern(n - 1, var_name, operation) \o <<"]">>

\* ok = FALSE when build_pattern never reaches n = 0 and the interpreter
\* raises RecursionError
generate_repeated_math_pattern(level, var_name, operation) ==
    IF level < 0 THEN [ok |-> FALSE, s |-> <<>>]
    ELSE [ok |-> TRUE, s |-> build_pattern(level, var_name, operation)]

handle_generate_recursive(args, context) ==
    IF Len(args) < 3 THEN Ret(Str(GenMissing), {})
    ELSE LET bound == IF args[1] \in DOMAIN context.args
                      THEN context.args[args[1]] ELSE Str(<<"0">>)
             echo == Ret(Str(GenEchoPrefix \o Join(args) \o <<"]">>),
                         {Diag("generate_error", Join(args))})
         IN Eager(PyInt(bound), LAMBDA level :
              IF ~level.ok THEN echo
              ELSE IF Len(args) < 4 THEN echo
              ELSE IF args[2] = N_math
                   THEN Eager(generate_repeated_math_pattern(level.n, args[3],
                                                             args[4]),
                              LAMBDA result :
                                IF result.ok THEN Ret(Str(result.s), {})
                                ELSE echo)
              ELSE Ret(Str(GenUnknownPrefix \o args[2] \o <<"]">>), {}))

\* lines 134-141 and 164-171: the optional dictionary argument
FileArgs(filename, literal) ==
    Eager(EvalDict(literal), LAMBDA v :
        [file_args |-> v,
         prints |-> IF v.isdict THEN {}
                    ELSE {Diag("bad_arguments", filename)}])

\* handle_file returning the placeholder of fileif when the target raises
handle_file_FileifPlaceholder(args, context) ==
    IF args = <<>> THEN Ret(Str(FileMissing), {})
    ELSE Eager(IF Len(args) > 1 THEN FileArgs(args[1], args[2])
               ELSE [file_args |-> NotDict, prints |-> {}],
               LAMBDA fa :
                 Call(args[1], fa.file_args,
                      FileErrPrefix \o args[1] \o <<"]">>, fa.prints))

handle_file(args, context) ==
    IF args = <<>> THEN Ret(Str(FileMissing), {})
    ELSE LET filename == args[1]
         IN Eager(IF Len(args) > 1 THEN FileArgs(filename, args[2])
                  ELSE [file_args |-> NotDict, prints |-> {}],
                  LAMBDA fa :
                    Call(filename, fa.file_args,
                         FileErrPrefix \o filename \o InfiniteLoopSuffix,
                         fa.prints))

handle_fileif(args, context) ==
    IF args = <<>> THEN Ret(Str(FileifMissing), {})
    ELSE IF Len(args) < 2 THEN Raises("IndexError")
    ELSE LET filename == args[1]
             check == args[2]
         IN IF ~Truthy(context.args, check) THEN Ret(Str(<<>>), {})
            ELSE Eager(IF Len(args) > 2 THEN FileArgs(filename, args[3])
                       ELSE [file_args |-> NotDict, prints |-> {}],
                       LAMBDA fa :
                         Call(filename, fa.file_args,
                              FileErrPrefix \o filename \o <<"]">>,
                              fa.prints))

handle_arg(args, context) ==
    IF args = <<>> THEN Ret(Str(ArgMissing), {})
    ELSE LET arg_name == args[1]
         IN IF arg_name \in DOMAIN context.args
            THEN Ret(context.args[arg_name], {})
            ELSE Ret(Str(ArgErrPrefix \o arg_name \o <<"]">>), {})

\* eval(expression) for the expressions read here: sums of decimal integers;
\* every other expression of the inputs is a name that is not defined
RECURSIVE SumFrom(_, _, _)
SumFrom(s, i, acc) ==
    Eager(SkipWs(s, i), LAMBDA a :
    Eager(IntLit(s, a), LAMBDA lit :
    Eager(SkipWs(s, lit.next), LAMBDA b :
        IF ~lit.ok THEN [ok |-> FALSE, n |-> 0]
        ELSE IF b > Len(s) THEN [ok |-> TRUE, n |-> acc + lit.v.n]
        ELSE IF s[b] = "+"
             THEN Eager(acc + lit.v.n, LAMBDA sum : SumFrom(s, b + 1, sum))
        ELSE [ok |-> FALSE, n |-> 0])))

handle_python_eval(args, context) ==
    IF args = <<>> THEN Ret(Str(EvalMissing), {})
    ELSE Eager(Join(args), LAMBDA expression :
           Eager(SumFrom(expression, 1, 0), LAMBDA result :
             IF result.ok THEN Ret(Str(StrInt(result.n)), {})
             ELSE Ret(Str(EvalErrPrefix \o expression \o <<"]">>),
                      {Diag("eval_error", expression)})))

\* the registry filled by __init__
directives ==
    [n \in {N_file, N_fileif, N_arg, N_python_eval, N_generate_recursive} |->
        IF n = N_file THEN "_handle_file"
        ELSE IF n = N_fileif THEN "_handle_fileif"
        ELSE IF n = N_arg THEN "_handle_arg"
        ELSE IF n = N_python_eval THEN "_handle_python_eval"
        ELSE "_handle_generate_recursive"]

\* lines 225-230: look the handler up and call it
Dispatch(m, context) ==
    IF m.directive_name \notin DOMAIN directives
    THEN Ret(Str(m.full_match), {Diag("unknown_directive", m.directive_name)})
    ELSE LET handler == directives[m.directive_name]
         IN IF handler = "_handle_file" THEN handle_file(m.args, context)
            ELSE IF handler = "_handle_fileif" THEN handle_fileif(m.args, context)
            ELSE IF handler = "_handle_arg" THEN handle_arg(m.args, context)
            ELSE IF handler = "_handle_python_eval"
                 THEN handle_python_eval(m.args, context)
            ELSE handle_generate_recursive(m.args, context)

----------------------------------------------------------------------------
(* process_file_recursive and process_file *)

MaxDepth == 100

MaxPasses == 3

Range(f) == {f[i] : i \in DOMAIN f}

\* lines 37-48
read_file_content(fs, filename) ==
    IF filename \in DOMAIN fs
    THEN [content |-> fs[filename], prints |-> {}]
    ELSE [content |-> FilePrefix \o filename \o <<"]">>,
          prints |-> {Diag("not_found", filename)}]

\* EntryError without the membership test of line 205
EntryError_NoCycleCheck(filename, depth, path) ==
    IF depth > MaxDepth THEN "RecursionError" ELSE ""

\* EntryError with the ceiling reached one level early
EntryError_OffByOne(filename, depth, path) ==
    IF depth >= MaxDepth THEN "RecursionError"
    ELSE IF filename \in Range(path) THEN "CircularReferenceError"
    ELSE ""

\* lines 202-208: the exception raised on entry, "" when there is none
EntryError(filename, depth, path) ==
    IF depth > MaxDepth THEN "RecursionError"
    ELSE IF filename \in Range(path) THEN "CircularReferenceError"
    ELSE ""

\* Context handing the depth it received on unchanged
Context_SameDepth(filename, args, depth) ==
    [depth |-> depth,
     args |-> IF args.isdict THEN args.d ELSE EmptyDict,
     filename |-> filename]

\* Context letting the enclosing activation's scope show through
Context_Inherit(filename, args, depth) ==
    [depth |-> depth + 1,
     args |-> (IF args.isdict THEN args.d ELSE EmptyDict)
                 @@ (IF frames # <<>> THEN frames[Len(frames)].context.args
                     ELSE EmptyDict),
     filename |-> filename]

\* lines 214-218
Context(filename, args, depth) ==
    [depth |-> depth + 1,
     args |-> IF args.isdict THEN args.d ELSE EmptyDict,
     filename |-> filename]

\* Splice losing the text after the match
Splice_Truncating(content, m, replacement) ==
    Slice(content, 0, m.start) \o replacement

\* lines 232-236
Splice(content, m, replacement) ==
    Slice(content, 0, m.start) \o replacement
        \o SubSeq(content, m.end + 1, Len(content))

NoLast == [how |-> "none", name |-> <<>>, args |-> <<>>, repl |-> <<>>,
           scope |-> EmptyDict, depth |-> 0]

Site(how, m, repl, context) ==
    [how |-> how, name |-> m.directive_name, args |-> m.args, repl |-> repl,
     scope |-> context.args, depth |-> context.depth]

Absent == [present |-> FALSE, text |-> <<>>]

\* lines 232-236 in the outermost activation: the replacement just spliced
\* into its buffer, remembered for the first MaxPasses iterations
Noted(ps, nesting, replacement) ==
    IF nesting = 1 /\ Len(ps) < MaxPasses THEN Append(ps, replacement) ELSE ps

Top == frames[Len(frames)]

\* lines 210-218: push, load, build the context; below are the activations
\* that stay suspended under the new one, prints what the caller printed
Enter(filename, args, depth, below, prints) ==
    \E loadedSource \in {read_file_content(files, filename)} :
       /\ current_path' = Append(current_path, filename)
       /\ reads' = Append(reads, filename)
       /\ frames' = Append(below,
                       [filename |-> filename,
                        content |-> loadedSource.content,
                        context |-> Context(filename, args, depth),
                        m |-> NoMatch])
       /\ log' = log \cup prints \cup loadedSource.prints

\* line 244: process_file calls process_file_recursive(input, initial_args)
ProcessFile ==
    /\ pc = "start"
    /\ LET err == EntryError(input, 0, current_path)
       IN IF err = ""
          THEN /\ Enter(input, initial_args, 0, <<>>, {})
               /\ pc' = "run"
               /\ exc' = exc
          ELSE /\ pc' = "raised"
               /\ exc' = err
               /\ UNCHANGED <<current_path, reads, frames, log>>
    /\ UNCHANGED <<files, input, initial_args, processed_content, output, last,
                   passes>>
    /\ tick' = tick

\* lines 221-236: one iteration whose handler returns text
Substitute ==
    /\ pc = "run"
    /\ \E m \in {parse_directive(Top.content)} :
       /\ m.found
       /\ \E h \in {Dispatch(m, Top.context)} :
          /\ h.r = "ret"
          /\ h.val.t = "str"
          /\ frames' = [frames EXCEPT ![Len(frames)].content =
                            Splice(Top.content, m, h.val.s)]
          /\ log' = log \cup h.prints
          /\ last' = Site("ret", m, h.val.s, Top.context)
          /\ passes' = Noted(passes, Len(frames), h.val.s)
    /\ UNCHANGED <<files, input, initial_args, current_path, pc, exc,
                   processed_content, output, reads>>
    /\ tick' = 1 - tick

\* lines 143-144, 173-174: file or fileif enters the target
Include ==
    /\ pc = "run"
    /\ \E m \in {parse_directive(Top.content)} :
       /\ m.found
       /\ \E h \in {Dispatch(m, Top.context)} :
          /\ h.r = "call"
          /\ EntryError(h.filename, Top.context.depth, current_path) = ""
          /\ Enter(h.filename, h.file_args, Top.context.depth,
                   [frames EXCEPT ![Len(frames)].m = m], h.prints)
    /\ UNCHANGED <<files, input, initial_args, pc, exc, processed_content,
                   output, last, passes>>
    /\ tick' = tick

\* Contain popping a name for the entry that raised before it pushed one
Contain_Popping ==
    /\ pc = "run"
    /\ \E m \in {parse_directive(Top.content)} :
       /\ m.found
       /\ \E h \in {Dispatch(m, Top.context)} :
          /\ h.r = "call"
          /\ EntryError(h.filename, Top.context.depth, current_path) # ""
          /\ frames' = [frames EXCEPT ![Len(frames)].content =
                            Splice(Top.content, m, h.onerr)]
          /\ log' = log \cup h.prints
                        \cup {Diag(EntryError(h.filename, Top.context.depth,
                                               current_path), h.filename)}
          /\ last' = Site("caught", m, h.onerr, Top.context)
          /\ passes' = Noted(passes, Len(frames), h.onerr)
    /\ current_path' = SubSeq(current_path, 1, Len(current_path) - 1)
    /\ UNCHANGED <<files, input, initial_args, pc, exc, processed_content,
                   output, reads>>
    /\ tick' = 1 - tick

\* lines 145-147, 175-177: the target raises on entry and the handler
\* returns its placeholder
Contain ==
    /\ pc = "run"
    /\ \E m \in {parse_directive(Top.content)} :
       /\ m.found
       /\ \E h \in {Dispatch(m, Top.context)} :
          /\ h.r = "call"
          /\ EntryError(h.filename, Top.context.depth, current_path) # ""
          /\ frames' = [frames EXCEPT ![Len(frames)].content =
                            Splice(Top.content, m, h.onerr)]
          /\ log' = log \cup h.prints
                        \cup {Diag(EntryError(h.filename, Top.context.depth,
                                               current_path), h.filename)}
          /\ last' = Site("caught", m, h.onerr, Top.context)
          /\ passes' = Noted(passes, Len(frames), h.onerr)
    /\ UNCHANGED <<files, input, initial_args, current_path, pc, exc,
                   processed_content, output, reads>>
    /\ tick' = 1 - tick

\* an exception no handler catches: IndexError out of _handle_fileif, or
\* TypeError at lines 232-236 when the replacement is not a str.  No
\* except clause between the site and process_file matches it, and nothing
\* is popped on the way.
Unwind ==
    /\ pc = "run"
    /\ \E m \in {parse_directive(Top.content)} :
       /\ m.found
       /\ \E h \in {Dispatch(m, Top.context)} :
          /\ \/ h.r = "raise"
             \/ h.r = "ret" /\ h.val.t # "str"
          /\ exc' = IF h.r = "raise" THEN h.exc ELSE "TypeError"
          /\ log' = log \cup h.prints
          /\ last' = Site("raised", m, <<>>, Top.context)
    /\ frames' = <<>>
    /\ pc' = "raised"
    /\ UNCHANGED <<files, input, initial_args, current_path,
                   processed_content, output, reads, passes>>
    /\ tick' = tick

\* lines 222-223, 238-239 in a nested activation, then lines 232-236 in the
\* activation that included it
Return ==
    /\ pc = "run"
    /\ Len(frames) > 1
    /\ ~parse_directive(Top.content).found
    /\ LET caller == frames[Len(frames) - 1]
       IN /\ frames' = Append(SubSeq(frames, 1, Len(frames) - 2),
                          [caller EXCEPT
                              !.content = Splice(caller.content, caller.m,
                                                 Top.content),
                              !.m = NoMatch])
          /\ last' = Site("return", caller.m, Top.content, caller.context)
          /\ passes' = Noted(passes, Len(frames) - 1, Top.content)
    /\ current_path' = SubSeq(current_path, 1, Len(current_path) - 1)
    /\ UNCHANGED <<files, input, initial_args, pc, exc, processed_content,
                   output, reads, log>>
    /\ tick' = 1 - tick

\* ReturnTop leaving the loop without having looked for a directive
ReturnTop_Unchecked ==
    /\ pc = "run"
    /\ Len(frames) = 1
    /\ processed_content' = Top.content
    /\ frames' = <<>>
    /\ current_path' = SubSeq(current_path, 1, Len(current_path) - 1)
    /\ pc' = "returned"
    /\ UNCHANGED <<files, input, initial_args, exc, output, reads, log, last,
                   passes>>
    /\ tick' = tick

\* lines 222-223, 238-239 in the outermost activation
ReturnTop ==
    /\ pc = "run"
    /\ Len(frames) = 1
    /\ ~parse_directive(Top.content).found
    /\ processed_content' = Top.content
    /\ frames' = <<>>
    /\ current_path' = SubSeq(current_path, 1, Len(current_path) - 1)
    /\ pc' = "returned"
    /\ UNCHANGED <<files, input, initial_args, exc, output, reads, log, last,
                   passes>>
    /\ tick' = tick

\* lines 246-248
WriteOutput ==
    /\ pc = "returned"
    /\ output' = [present |-> TRUE, text |-> processed_content]
    /\ log' = log \cup {Diag("success", input)}
    /\ pc' = "done"
    /\ UNCHANGED <<files, input, initial_args, current_path, frames, exc,
                   processed_content, reads, last, passes>>
    /\ tick' = tick

\* lines 250-255
CopyInput ==
    /\ pc = "raised"
    /\ IF input \in DOMAIN files
       THEN /\ output' = [present |-> TRUE, text |-> files[input]]
            /\ log' = log \cup {Diag("error", input), Diag("copied", input)}
            /\ pc' = "done"
       ELSE /\ output' = output
            /\ log' = log \cup {Diag("error", input)}
            /\ pc' = "crashed"
    /\ UNCHANGED <<files, input, initial_args, current_path, frames, exc,
                   processed_content, reads, last, passes>>
    /\ tick' = tick

Next ==
    \/ ProcessFile
    \/ Substitute
    \/ Include
    \/ Contain
    \/ Unwind
    \/ Return
    \/ ReturnTop
    \/ WriteOutput
    \/ CopyInput

----------------------------------------------------------------------------
(* The runs explored.  Source names are A (the document), B (includes A),  *)
(* N (reads the arguments x and y), Q (plain text), E (a fileif without    *)
(* its gate key); M does not exist.  A chain is s1, s2, ... each of which  *)
(* includes the next, the last one being plain text.                       *)

MaxLevel == 2

ChainExtra == 2

F_A == <<"A">>

F_B == <<"B">>

F_N == <<"N">>

F_Q == <<"Q">>

F_E == <<"E">>

F_M == <<"M">>

K_x == <<"x">>

K_y == <<"y">>

K_flag == <<"f", "l", "a", "g">>

K_lvl == <<"l", "v", "l">>

K_preproc_version ==
    <<"_", "p", "r", "e", "p", "r", "o", "c", "_", "v", "e", "r", "s", "i",
      "o", "n">>

K_bppcomp == <<"_", "b", "p", "p", "c", "o", "m", "p">>

PreprocVersion ==
    <<"2", "0", "2", "4", ".", "1", "1", ".", "2", "3", ".", "1">>

IncludeA == <<"[", "$", "f", "i", "l", "e", " ", "A", "]">>

IncludeB == <<"[", "$", "f", "i", "l", "e", " ", "B", "]">>

ReadXY ==
    <<"[", "$", "a", "r", "g", " ", "x", "]", "[", "$", "a", "r", "g", " ",
      "y", "]">>

PlainQ == <<"q">>

GateOnly == <<"[", "$", "f", "i", "l", "e", "i", "f", " ", "Q", "]">>

ArgX == <<"[", "$", "a", "r", "g", " ", "x", "]">>

IncludeQ == <<"[", "$", "f", "i", "l", "e", " ", "Q", "]">>

ChainEnd == <<"e", "n", "d">>

MainPieces ==
    {<<"[", "$", "f", "o", "o", " ", "a", "]">>,
     <<"[", "$", "a", "r", "g", " ", "x", "]">>,
     <<"[", "$", "a", "r", "g", "]">>,
     <<"[", "$", "a", "r", "g", " ", "_", "b", "p", "p", "c", "o", "m", "p", "]">>,
     <<"[", "$", "f", "i", "l", "e", "]">>,
     <<"[", "$", "f", "i", "l", "e", " ", "B", "]">>,
     <<"[", "$", "f", "i", "l", "e", " ", "Q", "]">>,
     <<"[", "$", "f", "i", "l", "e", " ", "M", "]">>,
     <<"[", "$", "f", "i", "l", "e", " ", "N", " ", "{", "'", "y", "'", ":",
      "'", "2", "'", "}", "]">>,
     <<"[", "$", "f", "i", "l", "e", " ", "N", "]">>,
     <<"[", "$", "f", "i", "l", "e", " ", "N", " ", "{", "'", "y", "'", ":",
      " ", "2", "}", "]">>,
     <<"[", "$", "f", "i", "l", "e", " ", "N", " ", "x", "]">>,
     <<"[", "$", "f", "i", "l", "e", " ", "E", "]">>,
     <<"[", "$", "f", "i", "l", "e", " ", "A", "]">>,
     <<"[", "$", "f", "i", "l", "e", "i", "f", "]">>,
     <<"[", "$", "f", "i", "l", "e", "i", "f", " ", "Q", "]">>,
     <<"[", "$", "f", "i", "l", "e", "i", "f", " ", "Q", " ", "f", "l", "a",
      "g", "]">>,
     <<"[", "$", "f", "i", "l", "e", "i", "f", " ", "B", " ", "f", "l", "a",
      "g", "]">>,
     <<"[", "$", "f", "i", "l", "e", "i", "f", " ", "N", " ", "f", "l", "a",
      "g", " ", "{", "'", "y", "'", ":", "'", "2", "'", "}", "]">>,
     <<"[", "$", "f", "i", "l", "e", "i", "f", " ", "M", " ", "f", "l", "a",
      "g", "]">>,
     <<"[", "$", "p", "y", "t", "h", "o", "n", "_", "e", "v", "a", "l", "]">>,
     <<"[", "$", "p", "y", "t", "h", "o", "n", "_", "e", "v", "a", "l", " ",
      "1", " ", "+", " ", "1", "]">>,
     <<"[", "$", "p", "y", "t", "h", "o", "n", "_", "e", "v", "a", "l", " ",
      "x", "]">>,
     <<"[", "$", "g", "e", "n", "e", "r", "a", "t", "e", "_", "r", "e", "c",
      "u", "r", "s", "i", "v", "e", "]">>,
     <<"[", "$", "g", "e", "n", "e", "r", "a", "t", "e", "_", "r", "e", "c",
      "u", "r", "s", "i", "v", "e", " ", "l", "v", "l", " ", "m", "a", "t",
      "h", "]">>,
     <<"[", "$", "g", "e", "n", "e", "r", "a", "t", "e", "_", "r", "e", "c",
      "u", "r", "s", "i", "v", "e", " ", "l", "v", "l", " ", "m", "a", "t",
      "h", " ", "v", "]">>,
     <<"[", "$", "g", "e", "n", "e", "r", "a", "t", "e", "_", "r", "e", "c",
      "u", "r", "s", "i", "v", "e", " ", "l", "v", "l", " ", "f", "o", "o",
      " ", "v", " ", "+", "]">>,
     <<"[", "$", "g", "e", "n", "e", "r", "a", "t", "e", "_", "r", "e", "c",
      "u", "r", "s", "i", "v", "e", " ", "l", "v", "l", " ", "m", "a", "t",
      "h", " ", "v", " ", "+", "]">>,
     <<"[", "$", "g", "e", "n", "e", "r", "a", "t", "e", "_", "r", "e", "c",
      "u", "r", "s", "i", "v", "e", " ", "l", "v", "l", " ", "m", "a", "t",
      "h", " ", "[", "$", "a", "r", "g", " ", "+", "]">>,
     <<"[", "$", "g", "e", "n", "e", "r", "a", "t", "e", "_", "r", "e", "c",
      "u", "r", "s", "i", "v", "e", " ", "l", "v", "l", " ", "m", "a", "t",
      "h", " ", "v", " ", "[", "$", "a", "r", "g", "]">>}

Siblings == {<<>>, <<"x">>, ArgX, IncludeQ}

Docs == {<<>>, <<"x">>}
            \cup {p \o s : p \in MainPieces, s \in Siblings}
            \cup {s \o p : p \in MainPieces, s \in Siblings}

D(d) == [isdict |-> TRUE, d |-> d]

\* lines 276-284: the dictionary main builds from the -D options
MainArgs(defines) ==
    D(defines @@ (K_preproc_version :> Str(PreprocVersion))
              @@ (K_bppcomp :> IntV(1)))

Scopes ==
    {NotDict,
     D(K_x :> Str(<<"1">>)),
     D((K_flag :> Str(<<>>)) @@ (K_lvl :> Str(<<"-", "1">>))),
     D((K_flag :> IntV(0)) @@ (K_lvl :> Str(<<"x">>))),
     D((K_flag :> IntV(1)) @@ (K_lvl :> IntV(1)) @@ (K_x :> Str(ArgX))),
     MainArgs(K_x :> Str(<<"1">>))}
        \cup {D((K_x :> Str(<<"1">>)) @@ (K_flag :> Str(<<"1">>))
                    @@ (K_lvl :> Str(StrNat(n)))) : n \in 0..MaxLevel}

BaseFiles(a) ==
    (F_A :> a) @@ (F_B :> IncludeA) @@ (F_N :> ReadXY) @@ (F_Q :> PlainQ)
        @@ (F_E :> GateOnly)

ChainName(i) == <<"s">> \o StrNat(i)

ChainFiles(n) ==
    [nm \in {ChainName(i) : i \in 1..n} |->
        IF NatOf(Tail(nm)) < n
        THEN FilePrefix \o ChainName(NatOf(Tail(nm)) + 1) \o <<"]">>
        ELSE ChainEnd]

ChainLens == {1, 2} \cup (MaxDepth..(MaxDepth + ChainExtra))

\* the opening of a directive without its closing bracket
ArgOpening == <<"[", "$", "a", "r", "g">>

\* [$arg x] followed by text that closes a directive opened by the
\* replacement
Straddle == ArgX \o <<" ", "y", "]">>

\* the result of an earlier expansion of [$arg x] with x unbound
Expanded == ArgErrPrefix \o <<"x", "]">>

\* a dictionary literal with a nested brace pair and whitespace after the
\* first closing brace
NestedBraces ==
    <<"[", "$", "f", "i", "l", "e", " ", "N", " ", "{", "'", "y", "'", ":",
      " ", "{", "'", "a", "'", ":", " ", "1", "}", " ", "}", "]">>

\* argument strings in which braces and whitespace mix: a brace literal
\* with a space, a closing brace inside a token, an opening brace inside a
\* token, a brace literal with a newline
BraceDocs ==
    {
     <<"[", "$", "a", "r", "g", " ", "{", "a", " ", "b", "}", " ", "c",
       " ", " ", "{", "d", "}", "e", "}", "f", " ", "g", "]">>,
     <<"[", "$", "a", "r", "g", " ", "k", " ", "x", "{", " ", "y", " ",
       "z", "}", " ", "w", "]">>,
     <<"[", "$", "a", "r", "g", " ", "k", " ", "{", "a", "\n", "b", "}",
       " ", "c", "]">>}

\* a source whose name is the text [$arg
F_Odd == ArgOpening

IncludeOdd ==
    <<"[", "$", "f", "i", "l", "e", " ", "[", "$", "a", "r", "g", " ", "{",
      "'", "f", "l", "a", "g", "'", ":", "'", "1", "'", "}", "]">>

GateOdd ==
    <<"[", "$", "f", "i", "l", "e", "i", "f", " ", "[", "$", "a", "r", "g",
      " ", "f", "l", "a", "g", "]">>

OddFiles == (F_A :> IncludeOdd) @@ (F_Odd :> GateOdd)

Extras ==
    {[files |-> BaseFiles(Straddle), input |-> F_A,
      initial_args |-> D(K_x :> Str(ArgOpening))],
     [files |-> BaseFiles(IncludeB \o IncludeB), input |-> F_A,
      initial_args |-> NotDict],
     [files |-> BaseFiles(NestedBraces), input |-> F_A,
      initial_args |-> D(K_x :> Str(<<"1">>))],
     [files |-> OddFiles, input |-> F_A, initial_args |-> NotDict],
     [files |-> BaseFiles(Expanded), input |-> F_A, initial_args |-> NotDict],
     [files |-> BaseFiles(Expanded), input |-> F_A,
      initial_args |-> D(K_x :> Str(<<"1">>))]}

Scenarios ==
    {[files |-> BaseFiles(a), input |-> F_A, initial_args |-> sc] :
        a \in Docs, sc \in Scopes}
    \cup {[files |-> BaseFiles(a), input |-> i, initial_args |-> NotDict] :
            a \in MainPieces, i \in {F_B, F_M, F_N}}
    \cup {[files |-> ChainFiles(n), input |-> ChainName(1),
           initial_args |-> NotDict] : n \in ChainLens}
    \cup Extras
    \cup {[files |-> BaseFiles(a), input |-> F_A, initial_args |-> NotDict] :
            a \in BraceDocs}

Init ==
    /\ \E sc \in Scenarios :
        /\ files = sc.files
        /\ input = sc.input
        /\ initial_args = sc.initial_args
    /\ current_path = <<>>
    /\ frames = <<>>
    /\ pc = "start"
    /\ exc = ""
    /\ processed_content = <<>>
    /\ output = Absent
    /\ reads = <<>>
    /\ log = {}
    /\ last = NoLast
    /\ tick = 0
    /\ passes = <<>>

Spec == Init /\ [][Next]_vars

\* the interpreter runs the program to completion: no step waits on anything
FairSpec == Spec /\ WF_vars(Next)

Done == pc = "done"

----------------------------------------------------------------------------
(* Properties *)

Returned == pc = "returned"

InfiniteLoopPlaceholder(filename) ==
    FileErrPrefix \o filename \o InfiniteLoopSuffix

\* A consists of [$file B] and B of [$file A]
CycleAB == input \in {F_A, F_B} /\ files = BaseFiles(IncludeB)

\* C1: with A = [$file B] and B = [$file A], the expansion of either one,
\* started with depth 0 and an empty call stack, terminates, raises nothing
\* to process_file and returns text containing the placeholder
\* [# $file <entry point>: infinite loop].
C1_CycleDetection ==
    [](CycleAB /\ pc = "start" /\ current_path = <<>>
        => <>(/\ Returned
              /\ exc = ""
              /\ Contains(processed_content, InfiniteLoopPlaceholder(input))))

C1_Witness ==
    /\ CycleAB
    /\ Returned
    /\ exc = ""
    /\ Contains(processed_content, InfiniteLoopPlaceholder(input))
    /\ \E d \in log : d.k = "CircularReferenceError" /\ d.who = input

IsChain(n) == input = ChainName(1) /\ files = ChainFiles(n)

DepthExceeded == \E d \in log : d.k = "RecursionError"

\* C2 as stated: expanding s1 of a chain of 101 sources raises at the
\* depth check instead of expanding all 101 sources.
C2_Chain101Raises ==
    IsChain(MaxDepth + 1) /\ Returned => DepthExceeded

\* C2 as amended: expanding s1 of a chain of n sources raises at the depth
\* check exactly when n >= 102 (the check fails on entering s102 with depth
\* 101, and the including site gets that source's placeholder); a chain of
\* 101 sources is expanded completely.
C2_DepthCeiling ==
    \A n \in ChainLens :
        IsChain(n) /\ Returned =>
            /\ DepthExceeded <=> n >= MaxDepth + 2
            /\ n >= MaxDepth + 2 =>
                 processed_content =
                     InfiniteLoopPlaceholder(ChainName(MaxDepth + 2))
            /\ n < MaxDepth + 2 => processed_content = ChainEnd

C2_Witness ==
    /\ IsChain(MaxDepth + 2)
    /\ Returned
    /\ DepthExceeded
    /\ Len(reads) = MaxDepth + 1

\* C3: when a source n that was read does not exist, the text returned by
\* the expansion still contains the literal [$file n].
C3_MissingSourceKept ==
    Returned =>
        \A n \in Range(reads) :
            n \notin DOMAIN files =>
                Contains(processed_content, FilePrefix \o n \o <<"]">>)


UnknownFoo == <<"[", "$", "f", "o", "o", " ", "a", "]">>

\* the loop is about to dispatch the directive [$foo a], which has no handler
UnknownNext ==
    /\ pc = "run"
    /\ \E m \in {parse_directive(Top.content)} :
        /\ m.found
        /\ m.directive_name \notin DOMAIN directives
        /\ m.full_match = UnknownFoo

\* C4: once the loop meets a directive without a handler it substitutes the
\* matched text unchanged and the expansion eventually returns, with the
\* directive as a literal in the returned text.
C4_UnknownDirectiveReturns ==
    [](UnknownNext => <>(Returned /\ Contains(processed_content, UnknownFoo)))

\* C5: every run of process_file ends with the output written: the
\* expanded text when the expansion returned, the input verbatim when it
\* raised.
C5_OutputAlwaysWritten ==
    <>(/\ Done
       /\ output.present
       /\ output.text = IF exc = "" THEN processed_content ELSE files[input])

\* the number of arguments each built-in handler reads
ExpectedArgs(name) ==
    IF name = N_fileif THEN 2
    ELSE IF name = N_generate_recursive THEN 4
    ELSE 1

\* C6: a built-in handler called with fewer arguments than it reads
\* returns a placeholder; it raises nothing.
C6_ShortArgumentsDegrade ==
    (/\ last.how # "none"
     /\ last.name \in DOMAIN directives
     /\ Len(last.args) < ExpectedArgs(last.name)) => last.how = "ret"

\* the level the claims speak of: the value bound to the key, 0 when it is
\* unbound, -1 when it is no non-negative integer
LevelOf(scope, k) ==
    IF k \notin DOMAIN scope THEN 0
    ELSE IF scope[k].t = "int" THEN (IF scope[k].n >= 0 THEN scope[k].n ELSE -1)
    ELSE IF AllDigits(scope[k].s) THEN NatOf(scope[k].s)
    ELSE -1

\* the loop is about to dispatch a generate_recursive directive that gets a
\* diagnostic: too few arguments, no operator, a pattern type other than
\* math, or a level that is no non-negative integer
GenDiagnosticNext ==
    /\ pc = "run"
    /\ \E m \in {parse_directive(Top.content)} :
        /\ m.found
        /\ m.directive_name = N_generate_recursive
        /\ \/ Len(m.args) < 4
           \/ m.args[2] # N_math
           \/ LevelOf(Top.context.args, m.args[1]) < 0

\* C7: a generate_recursive directive that gets a diagnostic placeholder
\* does not stop the expansion: the document reaches its fixed point and
\* the expansion returns.
C7_GenerateDiagnosticsReturn == [](GenDiagnosticNext => <>Returned)

\* the dictionary written at a file or fileif call site, empty when there
\* is none or when it is no dictionary
CallSiteDict(m) ==
    LET pos == IF m.directive_name = N_fileif THEN 3 ELSE 2
    IN IF Len(m.args) >= pos /\ EvalDict(m.args[pos]).isdict
       THEN EvalDict(m.args[pos]).d
       ELSE EmptyDict

TopScope == IF initial_args.isdict THEN initial_args.d ELSE EmptyDict

ScopeProbe ==
    <<"[", "$", "f", "i", "l", "e", " ", "N", " ", "{", "'", "y", "'", ":",
      "'", "2", "'", "}", "]", "[", "$", "a", "r", "g", " ", "x", "]">>

ScopeProbeResult ==
    <<"[", "#", " ", "$", "a", "r", "g", " ", "x", "]", "2", "1">>

ScopeProbeRun ==
    /\ input = F_A
    /\ files[F_A] = ScopeProbe
    /\ initial_args = D(K_x :> Str(<<"1">>))

\* C8: what [$arg k] yields inside a source entered through file or fileif
\* is decided by the dictionary of the call site alone: every nested
\* activation holds exactly that dictionary, the outermost one holds the
\* top-level scope throughout, and an [$arg k] substituted in a nested
\* activation got the call-site value of k, or [# $arg k] when the call
\* site does not bind k.  With top-level scope {x: "1"}, a document
\* [$file N {'y':'2'}][$arg x] and N = [$arg x][$arg y] the result is
\* [# $arg x]21.
C8_ScopeIsolation ==
    /\ \A i \in 1..Len(frames) :
        frames[i].context.args =
            IF i = 1 THEN TopScope ELSE CallSiteDict(frames[i - 1].m)
    /\ (/\ pc = "run"
        /\ Len(frames) >= 2
        /\ last.how = "ret"
        /\ last.name = N_arg
        /\ last.args # <<>>
        /\ last.depth = Top.context.depth)
       => \E d \in {CallSiteDict(frames[Len(frames) - 1].m)} :
            last.repl = IF last.args[1] \in DOMAIN d THEN d[last.args[1]].s
                        ELSE ArgErrPrefix \o last.args[1] \o <<"]">>
    /\ ScopeProbeRun /\ Returned => processed_content = ScopeProbeResult

C8_Witness ==
    /\ ScopeProbeRun
    /\ Returned
    /\ processed_content = ScopeProbeResult
    /\ reads = <<F_A, F_N>>

\* the gate key is unbound or bound to a falsy value
Falsy(scope, k) ==
    \/ k \notin DOMAIN scope
    \/ scope[k] \in {Str(<<>>), IntV(0)}

\* the loop is about to dispatch a fileif whose gate is falsy
GateClosedNext ==
    /\ pc = "run"
    /\ \E m \in {parse_directive(Top.content)} :
        /\ m.found
        /\ m.directive_name = N_fileif
        /\ Len(m.args) >= 2
        /\ Falsy(Top.context.args, m.args[2])

\* C9: dispatching a fileif whose gate key is unbound or falsy replaces the
\* directive by the empty string, calls read_file_content for nothing,
\* enters no activation and leaves the call stack as it was.
C9_FileifGate ==
    [][GateClosedNext =>
        /\ \E m \in {parse_directive(Top.content)} :
             frames' = [frames EXCEPT ![Len(frames)].content =
                            Slice(Top.content, 0, m.start)
                                \o SubSeq(Top.content, m.end + 1,
                                          Len(Top.content))]
        /\ reads' = reads
        /\ current_path' = current_path
        /\ pc' = "run"]_vars

C9_Witness ==
    /\ last.how = "ret"
    /\ last.name = N_fileif
    /\ Len(last.args) >= 2
    /\ Falsy(last.scope, last.args[2])
    /\ last.repl = <<>>
    /\ last.args[1] \notin Range(reads)

GenPrefixes == {<<"v">>, <<"[", "$", "a", "r", "g">>}

GenOps == {<<"+">>, <<"[", "$", "a", "r", "g">>}

\* the document [$generate_recursive lvl math p op]
GenDoc(p, op) ==
    GenEchoPrefix \o K_lvl \o <<" ">> \o N_math \o <<" ">> \o p \o <<" ">>
        \o op \o <<"]">>

\* buildMathPattern of the specification
RECURSIVE buildMathPattern(_, _, _)
buildMathPattern(n, p, op) ==
    IF n = 0 THEN <<"[", "V", "A", "R", " ">> \o p \o <<"0", "]">>
    ELSE <<"[", "M", "A", "T", "H", " ", "[", "V", "A", "R", " ">> \o p
            \o StrNat(n) \o <<"]", " ">> \o op \o <<" ">>
            \o buildMathPattern(n - 1, p, op) \o <<"]">>

\* the substitution of [$generate_recursive <var> math p op] with a level
\* n >= 0 put buildMathPattern(n) in place of the directive
PatternSubstituted ==
    (/\ last.how = "ret"
     /\ last.name = N_generate_recursive
     /\ Len(last.args) >= 4
     /\ last.args[2] = N_math
     /\ LevelOf(last.scope, last.args[1]) >= 0)
    => last.repl = buildMathPattern(LevelOf(last.scope, last.args[1]),
                                    last.args[3], last.args[4])

\* the expansion of the document [$generate_recursive lvl math p op]
\* returns buildMathPattern(n), for the p and op in P and O
PatternKept(P, O) ==
    \A p \in P, op \in O :
        (/\ input = F_A
         /\ files[F_A] = GenDoc(p, op)
         /\ Returned
         /\ LevelOf(TopScope, K_lvl) >= 0)
        => processed_content = buildMathPattern(LevelOf(TopScope, K_lvl),
                                                p, op)

\* C10 as stated: for every level n >= 0, prefix p and operator op the
\* directive is replaced by exactly buildMathPattern(n) and the loop does
\* not rewrite that text further.
C10_PatternForEveryOperand ==
    PatternSubstituted /\ PatternKept(GenPrefixes, GenOps)

NoDirectiveOpening(t) == ~Contains(t, <<"[", "$">>)

\* C10 as amended: for every level n >= 0 that build_pattern can recurse to,
\* the directive is replaced by exactly buildMathPattern(n); the loop does
\* not rewrite that text further when neither p nor op contains the two
\* characters that open a directive.
C10_GenerateRecursive ==
    /\ PatternSubstituted
    /\ PatternKept({p \in GenPrefixes : NoDirectiveOpening(p)},
                   {op \in GenOps : NoDirectiveOpening(op)})

Level2Pattern ==
    <<"[", "M", "A", "T", "H", " ", "[", "V", "A", "R", " ", "v", "2", "]",
      " ", "+", " ", "[", "M", "A", "T", "H", " ", "[", "V", "A", "R", " ",
      "v", "1", "]", " ", "+", " ", "[", "V", "A", "R", " ", "v", "0", "]",
      "]", "]">>

C10_Witness ==
    /\ input = F_A
    /\ files[F_A] = GenDoc(<<"v">>, <<"+">>)
    /\ K_lvl \in DOMAIN TopScope
    /\ TopScope[K_lvl] = Str(<<"2">>)
    /\ Returned
    /\ last.name = N_generate_recursive
    /\ processed_content = Level2Pattern

----------------------------------------------------------------------------
(* The fixed point of the loop *)

\* no directive shape in t
Plain(t) == ~parse_directive(t).found

\* doc holds a directive, and no further directive shape begins after the
\* opening bracket of that one
OnlyDirective(doc) ==
    \E m \in {parse_directive(doc)} :
        /\ m.found
        /\ Plain(SubSeq(doc, m.start + 2, Len(doc)))

\* doc with its leftmost directive replaced by r and the rest unchanged
WithReplaced(doc, r) ==
    LET m == parse_directive(doc)
    IN SubSeq(doc, 1, m.start) \o r \o SubSeq(doc, m.end + 1, Len(doc))

\* the document has one directive, and the text substituted for it has no
\* directive shape
OnePassCase ==
    /\ input \in DOMAIN files
    /\ passes # <<>>
    /\ Plain(passes[1])
    /\ OnlyDirective(files[input])

\* C11 as stated: a document whose only directive is replaced by text with
\* no directive shape is returned after exactly one substitution, as the
\* document with that directive replaced and all other text unchanged.
C11_OnePass ==
    (pc = "returned" /\ OnePassCase)
        => /\ Len(passes) = 1
           /\ processed_content = WithReplaced(files[input], passes[1])

\* C11 amended: when moreover the replacement forms no directive shape
\* together with the text around it, the expansion, once that substitution
\* is made, returns the document with the directive replaced and all other
\* text unchanged, having made exactly one substitution.
C11_FixedPoint ==
    (/\ pc = "run"
     /\ Len(frames) = 1
     /\ Len(passes) = 1
     /\ OnePassCase
     /\ Plain(WithReplaced(files[input], passes[1])))
        ~> (/\ pc = "returned"
            /\ input \in DOMAIN files
            /\ Len(passes) = 1
            /\ processed_content = WithReplaced(files[input], passes[1]))

\* [$arg x]x with x bound to 1 has been returned as 1x
C11_Witness ==
    /\ pc = "returned"
    /\ OnePassCase
    /\ files[input] = ArgX \o <<"x">>
    /\ passes = << <<"1">> >>
    /\ processed_content = <<"1", "x">>

\* C12: whatever process_file_recursive returns, to process_file or to the
\* handler that included it, holds no directive shape; and a document that
\* holds none is returned unchanged without any substitution.
C12_Idempotence ==
    /\ (pc \in {"returned", "done"} => Plain(processed_content))
    /\ (last.how = "return" => Plain(last.repl))
    /\ (/\ pc # "start"
        /\ input \in DOMAIN files
        /\ Plain(files[input]))
           => /\ passes = <<>>
              /\ last = NoLast
              /\ pc \in {"run", "returned", "done"}
              /\ (pc # "run" => processed_content = files[input])

\* a document has been returned whose last substitution spliced in what a
\* nested inclusion returned
C12_Witness ==
    /\ pc = "returned"
    /\ last.how = "return"
    /\ passes # <<>>
    /\ Len(reads) >= 2
    /\ processed_content # <<>>

----------------------------------------------------------------------------
(* The call stack *)

\* process_file is over: it wrote the output or failed to
Finished == pc \in {"done", "crashed"}

\* C13: when an activation is left by an exception its name is popped, so
\* that current_path is empty after every process_file run, written or
\* fallen back.
C13_StackRestored ==
    (Finished \/ pc = "raised") => current_path = <<>>

NoDuplicates(path) == Cardinality(Range(path)) = Len(path)

\* the directive about to be dispatched is a file or fileif that calls
\* process_file_recursive for a source that is on the call stack
ReentryAttempt ==
    /\ pc = "run"
    /\ \E m \in {parse_directive(Top.content)} :
       /\ m.found
       /\ \E h \in {Dispatch(m, Top.context)} :
          /\ h.r = "call"
          /\ h.filename \in Range(current_path)
          /\ Top.context.depth <= MaxDepth

----------------------------------------------------------------------------
(* Errors caught at the directive site *)

\* the step is one in which file or fileif caught the error raised on
\* entering its target
ContainStep == last'.how = "caught" /\ tick' # tick

FileifPlaceholder(filename) == FileErrPrefix \o filename \o <<"]">>

\* what Contained(inert) asks of a step that caught an entry error: the
\* directive is replaced by the placeholder naming its target and the text
\* around it is kept, the call stack is as before, the activation goes on;
\* and the document [$file B][$file B], whose first inclusion fails inside
\* B, has both inclusions replaced alike when it returns
Contained(inert) ==
    /\ ContainStep =>
         \E m \in {parse_directive(Top.content)} :
            /\ last'.repl = IF last'.name = N_file
                            THEN InfiniteLoopPlaceholder(last'.args[1])
                            ELSE FileifPlaceholder(last'.args[1])
            /\ inert
            /\ current_path' = current_path
            /\ pc' = "run"
            /\ Len(frames') = Len(frames)
            /\ frames'[Len(frames)].content =
                  SubSeq(Top.content, 1, m.start) \o last'.repl
                      \o SubSeq(Top.content, m.end + 1, Len(Top.content))
    /\ (/\ pc' = "returned"
        /\ input = F_A
        /\ files = BaseFiles(IncludeB \o IncludeB))
           => processed_content' = InfiniteLoopPlaceholder(F_A)
                                      \o InfiniteLoopPlaceholder(F_A)

\* C15 as stated: the placeholder put in place of a file or fileif whose
\* target raised on entry names the target and is inert (no directive
\* shape), the call stack after it equals the stack before, and the
\* directives after it in the buffer are kept and expanded.
C15_InertPlaceholder == [][Contained(Plain(last'.repl))]_vars

\* C15 amended: the same, the placeholder being inert when the target name
\* does not contain the two characters that open a directive.
C15_ErrorContainment ==
    [][Contained(NoDirectiveOpening(last'.args[1]) => Plain(last'.repl))]_vars

\* [$file B][$file B] has been returned: the first B caught the re-entry
\* of A, and the second inclusion of B did the same
C15_Witness ==
    /\ pc = "returned"
    /\ input = F_A
    /\ files = BaseFiles(IncludeB \o IncludeB)
    /\ reads = <<F_A, F_B, F_B>>
    /\ last.how = "return"
    /\ processed_content = InfiniteLoopPlaceholder(F_A)
                               \o InfiniteLoopPlaceholder(F_A)

----------------------------------------------------------------------------
(* Termination *)

\* the document is [$arg x] and the scope binds x to the text [$arg x]
SelfReferentialArg ==
    /\ input = F_A
    /\ files = BaseFiles(ArgX)
    /\ initial_args.isdict
    /\ K_x \in DOMAIN initial_args.d
    /\ initial_args.d[K_x] = Str(ArgX)

\* C16: the expansion of [$arg x] in a scope that binds x to [$arg x]
\* eventually stops, by returning or by raising (the depth ceiling cutting
\* it off).
C16_SelfReferenceStops ==
    (SelfReferentialArg /\ pc = "run") ~> (pc # "run")

----------------------------------------------------------------------------
(* Argument substitution *)

\* a bound value as text
TextOf(v) == IF v.t = "str" THEN v.s ELSE StrInt(v.n)

\* C17: the most recent [$arg k] was replaced, without any failure, by the
\* value bound to k in the scope of its activation, as text, or by
\* [# $arg k] when k is unbound.
C17_ArgYieldsText ==
    (last.how # "none" /\ last.name = N_arg /\ last.args # <<>>)
        => /\ last.how = "ret"
           /\ last.repl = IF last.args[1] \in DOMAIN last.scope
                          THEN TextOf(last.scope[last.args[1]])
                          ELSE ArgErrPrefix \o last.args[1] \o <<"]">>

----------------------------------------------------------------------------
(* Argument tokenization *)

\* the inside-brace flag of a left-to-right scan of s on reaching position
\* i: set by the nearest brace before i when that brace is an opening one
InsideBrace(s, i) ==
    \E j \in 1..(i - 1) :
        /\ s[j] = "{"
        /\ \A k \in (j + 1)..(i - 1) : s[k] \notin {"{", "}"}

\* the positions at which the scan splits
Splits(s) == {i \in 1..Len(s) : s[i] \in Space /\ ~InsideBrace(s, i)}

\* the positions at which a token begins
TokenStarts(s) ==
    {i \in 1..Len(s) : i \notin Splits(s) /\ (i = 1 \/ i - 1 \in Splits(s))}

\* where the token that begins at a ends
TokenEnd(s, a) ==
    CHOOSE b \in a..Len(s) :
        /\ \A i \in a..b : i \notin Splits(s)
        /\ (b = Len(s) \/ b + 1 \in Splits(s))

\* the tokens of s in order: the maximal runs of positions between splits
ToggleTokens(s) ==
    [n \in 1..Cardinality(TokenStarts(s)) |->
        LET a == CHOOSE x \in TokenStarts(s) :
                    Cardinality({y \in TokenStarts(s) : y < x}) = n - 1
        IN SubSeq(s, a, TokenEnd(s, a))]

\* group 2 of the match m: what stands between the name and the closing
\* bracket
ArgsString(m) ==
    SubSeq(m.full_match, Len(m.directive_name) + 3, Len(m.full_match) - 1)

\* C18: the argument list of every directive found in the buffer of the
\* running activation is the list of tokens of a left-to-right scan of its
\* argument string that sets a flag on an opening brace, clears it on a
\* closing one and splits on whitespace while the flag is clear, empty
\* tokens dropped.
C18_BraceToggle ==
    pc = "run" =>
        \A m \in {parse_directive(Top.content)} :
            m.found => m.args = ToggleTokens(Strip(ArgsString(m)))

\* the directive found is [$file N {'y': {'a': 1} }]: the literal is one
\* argument up to its first closing brace, whitespace included, and the
\* second closing brace is an argument of its own
C18_Witness ==
    /\ pc = "run"
    /\ Top.content = NestedBraces
    /\ parse_directive(Top.content).args =
          <<F_N,
            <<"{", "'", "y", "'", ":", " ", "{", "'", "a", "'", ":", " ", "1",
              "}">>,
            <<"}">> >>

----------------------------------------------------------------------------
(* Depth and the call stack *)

\* C19: the activation that is the i-th on the stack was entered with depth
\* i - 1, the number of names then on current_path, so its context depth is
\* i; while the expansion runs current_path holds one name for each
\* activation, and never more than 101 names.
C19_DepthTracksStack ==
    /\ \A i \in DOMAIN frames :
          /\ frames[i].context.depth = i
          /\ frames[i].filename = current_path[i]
    /\ (pc = "run" => Len(current_path) = Len(frames))
    /\ Len(current_path) <= MaxDepth + 1

\* a chain is 101 sources deep: the innermost activation has context depth
\* 101
C19_Witness ==
    /\ pc = "run"
    /\ Len(current_path) = MaxDepth + 1
    /\ Top.context.depth = MaxDepth + 1
    /\ Top.filename = ChainName(MaxDepth + 1)

====
